---- MODULE Spec2Model ----
(***************************************************************************)
(* DynamoDBStore (cache-manager store on DynamoDB): the key codec, the     *)
(* request builders, the store methods and the DynamoDB table they talk    *)
(* to.  Strings are sequences of one-character strings, so that split,     *)
(* startsWith and endsWith are computed as the code computes them.         *)
(***************************************************************************)
EXTENDS Integers, Sequences, FiniteSets, TLC

VARIABLES
    hasSk,      \* config.keys.sk is configured (types.ts: sk?: string)
    cfgTtl,     \* config.ttl in ms, 0 when not configured
    now,        \* Date.now() in ms
    table,      \* the DynamoDB table: store key -> item
    op,         \* the batch / enumeration call in flight (or Idle)
    res,        \* what the last settled call returned to its caller
    track       \* history: the last successful write or delete of one key

vars == <<hasSk, cfgTtl, now, table, op, res, track>>

----------------------------------------------------------------------------
(* Program constants *)

DELIMITER == "+"
MASK == "*"
defaultTtl == 60000
ReadChunk == 100
WriteChunk == 25
MaxAttempts == 10       \* provider calls a chunk is given before it fails

(* Bounds of the model *)

MaxTicks == 1          \* Date.now() advances at most this many times
TickMs == 1001         \* by this many ms each time
MaxItems == 151        \* longest argument list of the chunking runs
MaxKeyLen == 5         \* longest logical key of the codec runs

----------------------------------------------------------------------------
(* Values of JavaScript that are not strings *)

Undefined == <<"UNDEFINED">>    \* the value undefined
NoAttr == <<"NOATTR">>          \* an attribute the record does not have
Absent == "absent"              \* what get/mget return for a missing entry

Min(a, b) == IF a < b THEN a ELSE b

RECURSIVE flat(_)
flat(ss) == IF ss = <<>> THEN <<>> ELSE Head(ss) \o flat(Tail(ss))

RECURSIVE sum(_)
sum(ns) == IF ns = <<>> THEN 0 ELSE Head(ns) + sum(Tail(ns))

Values == {"v1", "null"}

(* Logical keys the callers use *)
Kab == <<"a", "+", "b">>
Kac == <<"a", "+", "c">>
Kabc == <<"a", "+", "b", "+", "c">>
Ka == <<"a">>
Kbad == <<"+", "a">>

LogicalKeys == {Kab, Kac, Kabc, Ka, Kbad}

CallTtls == {0, 1400}       \* the ttl argument; 0 stands for "not given"
ConfigTtls == {0, 2000}     \* config.ttl; 0 stands for "not configured"

----------------------------------------------------------------------------
(* Key codec: src/src/utils.ts *)

\* a faulty msToS: Math.ceil in place of Math.round
msToSCeil(ms) == (ms + 999) \div 1000

msToS(ms) == (ms + 500) \div 1000

RECURSIVE split(_, _)
split(s, d) ==
    IF \A i \in 1..Len(s) : s[i] # d
    THEN <<s>>
    ELSE LET i == CHOOSE j \in 1..Len(s) :
                      s[j] = d /\ \A m \in 1..(j - 1) : s[m] # d
         IN <<SubSeq(s, 1, i - 1)>> \o split(SubSeq(s, i + 1, Len(s)), d)

startsWith(s, d) == Len(s) > 0 /\ s[1] = d
endsWith(s, d) == Len(s) > 0 /\ s[Len(s)] = d

\* deserializeKey throws exactly when this is false
keyAccepted(key) == Len(key) > 0 /\ ~startsWith(key, DELIMITER)

\* const [pk, sk] = key.split(DELIMITER): the first two segments
deserializeKey(key, withSk) ==
    LET parts == split(key, DELIMITER)
    IN [pk |-> parts[1],
        sk |-> IF withSk
               THEN (IF Len(parts) >= 2 THEN parts[2] ELSE Undefined)
               ELSE NoAttr]

\* item[config.keys.sk || ''].S throws a TypeError when no sort field is
\* configured (item[''] is undefined)
serializeThrows(item, withSk) == ~withSk

serializeKey(item, withSk) ==
    IF item.sk # <<>> /\ item.sk # Undefined /\ item.sk # NoAttr
    THEN item.pk \o <<DELIMITER>> \o item.sk
    ELSE item.pk

\* unmarshall of @aws-sdk/util-dynamodb: every attribute value becomes the
\* native value, the expiration attribute { N: "61" } the number 61
unmarshall(item) == [item EXCEPT !.ex = [num |-> @.N]]

\* parseInt(record[config.keys.ex].N, 10) * 1000 < Date.now(): of a plain
\* number .N is undefined, parseInt gives NaN and the comparison is false
isExpired(record, t) ==
    IF "N" \in DOMAIN record.ex THEN record.ex.N * 1000 < t ELSE FALSE

\* ttl || DynamoDBStore.defaultTtl: the configured ttl passed over
ttlInForceNoConfig(ttl, configTtl) ==
    IF ttl # 0 THEN ttl ELSE defaultTtl

\* ttl || this.config.ttl || DynamoDBStore.defaultTtl
ttlInForce(ttl, configTtl) ==
    IF ttl # 0 THEN ttl ELSE IF configTtl # 0 THEN configTtl ELSE defaultTtl

\* this.config.meta && this.config.meta(data): fields stored beside data
metaOf(data) == <<"meta", data>>

buildItem(key, data, ttl, t, withSk) ==
    LET k == deserializeKey(key, withSk)
    IN [pk |-> k.pk, sk |-> k.sk, data |-> data, meta |-> metaOf(data),
        ex |-> [N |-> msToS(t + ttl)]]

\* a faulty chunk: the last, partial chunk is dropped
chunkDropTail(s, size) ==
    [i \in 1..(Len(s) \div size) |->
        SubSeq(s, (i - 1) * size + 1, i * size)]

chunk(s, size) ==
    [i \in 1..((Len(s) + size - 1) \div size) |->
        SubSeq(s, (i - 1) * size + 1, Min(i * size, Len(s)))]

----------------------------------------------------------------------------
(* The DynamoDB table *)

\* DynamoDB rejects a key whose attribute is missing or the empty string
validDbKey(k, withSk) ==
    /\ k.pk # <<>>
    /\ withSk => (k.sk # Undefined /\ k.sk # <<>>)

dbPut(t, item) ==
    LET k == [pk |-> item.pk, sk |-> item.sk]
    IN [x \in (DOMAIN t) \cup {k} |-> IF x = k THEN item ELSE t[x]]

dbDelete(t, k) == [x \in (DOMAIN t) \ {k} |-> t[x]]

EmptyTable == [x \in {} |-> x]

Idle == [kind |-> "idle", call |-> "none"]
NoRes == [op |-> "none", args |-> <<>>, status |-> "none", vals |-> <<>>,
          calls |-> 0, chunkCalls |-> <<>>, sent |-> <<>>, replies |-> <<>>,
          raised |-> <<>>]
NoTrack == [kind |-> "none"]      \* history kept, nothing tracked now
TrackOff == [kind |-> "off"]      \* no history kept

\* new DynamoDBStore(config) on an empty table
Construct ==
    /\ hasSk \in BOOLEAN
    /\ cfgTtl \in ConfigTtls
    /\ hasSk \/ cfgTtl = 0
    /\ now = 0
    /\ table = EmptyTable
    /\ op = Idle
    /\ res = NoRes

Init == Construct /\ track = TrackOff

\* a table with a sort field and no configured ttl, the history of one key
\* kept
InitHist == Construct /\ hasSk /\ cfgTtl = 0 /\ track = NoTrack

\* nothing is waiting to be handed to a caller
quiet == res.op = "none"

Tick ==
    /\ quiet
    /\ now + TickMs <= MaxTicks * TickMs
    /\ now' = now + TickMs
    /\ UNCHANGED <<hasSk, cfgTtl, table, op, res, track>>

\* the caller of the settled call takes its result
resume ==
    /\ ~quiet
    /\ res' = NoRes
    /\ UNCHANGED <<hasSk, cfgTtl, now, table, op, track>>

----------------------------------------------------------------------------
(* What a settled call hands to its caller *)

result(name, args, status, vals, calls) ==
    [op |-> name, args |-> args, status |-> status, vals |-> vals,
     calls |-> calls, chunkCalls |-> <<>>, sent |-> <<>>, replies |-> <<>>,
     raised |-> <<>>]

\* a faulty batchResult: the provider's error is wrapped as UnprocessedData
batchResultWrapped(o, status, vals) ==
    [op |-> o.call, args |-> IF o.call = "reset" THEN <<>> ELSE o.args,
     status |-> IF status = "ProviderError" THEN "UnprocessedData" ELSE status,
     vals |-> vals,
     calls |-> o.before + sum(o.calls), chunkCalls |-> o.calls,
     sent |-> [i \in DOMAIN o.req |->
                  IF o.calls[i] = 0 THEN <<>> ELSE <<o.req[i]>>],
     replies |-> o.replies, raised |-> o.raised]

\* the same for a batch call, with what passed between the call and the
\* provider chunk by chunk: the requests sent (each chunk sends its request
\* once), the unprocessed subset of every response received, and the error
\* the provider raised
batchResult(o, status, vals) ==
    [op |-> o.call, args |-> IF o.call = "reset" THEN <<>> ELSE o.args,
     status |-> status, vals |-> vals,
     calls |-> o.before + sum(o.calls), chunkCalls |-> o.calls,
     sent |-> [i \in DOMAIN o.req |->
                  IF o.calls[i] = 0 THEN <<>> ELSE <<o.req[i]>>],
     replies |-> o.replies, raised |-> o.raised]

\* history variable: a write or delete of key has just succeeded
tracked(key) == track.kind \in {"written", "deleted"} /\ track.key = key

\* the history follows one key: the first one written or deleted while none
\* is followed
trackAfter(key, entry) ==
    IF track.kind = "none" \/ tracked(key) THEN track' = entry
    ELSE UNCHANGED track

----------------------------------------------------------------------------
(* Single-item methods: src/src/store.ts *)

getValue(dbKey) ==
    IF dbKey \notin DOMAIN table THEN Absent
    ELSE LET item == unmarshall(table[dbKey])
         IN IF isExpired(item, now) THEN Absent ELSE item.data

get ==
    /\ quiet
    /\ op.kind = "idle"
    /\ \E key \in LogicalKeys :
        LET dbKey == deserializeKey(key, hasSk)
        IN /\ quiet /\ op.kind = "idle"
           /\ res' = IF ~keyAccepted(key)
                     THEN result("get", <<key>>, "MalformedKey", <<>>, 0)
                     ELSE IF ~validDbKey(dbKey, hasSk)
                     THEN result("get", <<key>>, "ProviderError", <<>>, 1)
                     ELSE result("get", <<key>>, "ok", <<getValue(dbKey)>>, 1)
           /\ UNCHANGED <<hasSk, cfgTtl, now, table, op, track>>

\* set(key, data, ttl) with its arguments drawn from the given sets
setWith(keySet, dataSet, ttlSet) ==
    /\ quiet
    /\ op.call \in {"none", "reset"}
    /\ \E key \in keySet, data \in dataSet, ttl \in ttlSet :
        LET dbKey == deserializeKey(key, hasSk)
            inForce == ttlInForce(ttl, cfgTtl)
        IN IF ~keyAccepted(key)
           THEN /\ quiet /\ op.kind = "idle"
                /\ res' = result("set", <<key, ttl>>, "MalformedKey", <<>>, 0)
                /\ UNCHANGED <<hasSk, cfgTtl, now, table, op, track>>
           ELSE IF ~validDbKey(dbKey, hasSk)
           THEN /\ quiet /\ op.kind = "idle"
                /\ res' = result("set", <<key, ttl>>, "ProviderError", <<>>, 1)
                /\ UNCHANGED <<hasSk, cfgTtl, now, table, op, track>>
           ELSE /\ quiet /\ op.call \in {"none", "reset"}
                /\ table' = dbPut(table, buildItem(key, data, inForce, now, hasSk))
                /\ res' = result("set", <<key, ttl>>, "ok", <<>>, 1)
                /\ IF op.call = "reset" THEN UNCHANGED track
                   ELSE trackAfter(key, [kind |-> "written", key |-> key,
                                         v |-> data, exp |-> now + inForce])
                /\ UNCHANGED <<hasSk, cfgTtl, now, op>>

set == setWith(LogicalKeys, Values, CallTtls)

del ==
    /\ quiet
    /\ op.kind = "idle"
    /\ \E key \in LogicalKeys :
        LET dbKey == deserializeKey(key, hasSk)
        IN IF ~keyAccepted(key)
           THEN /\ quiet /\ op.kind = "idle"
                /\ res' = result("del", <<key>>, "MalformedKey", <<>>, 0)
                /\ UNCHANGED <<hasSk, cfgTtl, now, table, op, track>>
           ELSE IF ~validDbKey(dbKey, hasSk)
           THEN /\ quiet /\ op.kind = "idle"
                /\ res' = result("del", <<key>>, "ProviderError", <<>>, 1)
                /\ UNCHANGED <<hasSk, cfgTtl, now, table, op, track>>
           ELSE /\ quiet /\ op.kind = "idle"
                /\ table' = dbDelete(table, dbKey)
                /\ res' = result("del", <<key>>, "ok", <<>>, 1)
                /\ trackAfter(key, [kind |-> "deleted", key |-> key])
                /\ UNCHANGED <<hasSk, cfgTtl, now, op>>

\* a faulty ttl: the seconds are not converted to milliseconds
ttlValueSeconds(dbKey) ==
    IF dbKey \in DOMAIN table THEN table[dbKey].ex.N - now ELSE -1

ttlValue(dbKey) ==
    IF dbKey \in DOMAIN table THEN table[dbKey].ex.N * 1000 - now ELSE -1

ttl ==
    /\ quiet
    /\ op.kind = "idle"
    /\ \E key \in LogicalKeys :
        LET dbKey == deserializeKey(key, hasSk)
        IN /\ quiet /\ op.kind = "idle"
           /\ res' = IF ~keyAccepted(key)
                     THEN result("ttl", <<key>>, "MalformedKey", <<>>, 0)
                     ELSE IF ~validDbKey(dbKey, hasSk)
                     THEN result("ttl", <<key>>, "ProviderError", <<>>, 1)
                     ELSE result("ttl", <<key>>, "ok", <<ttlValue(dbKey)>>, 1)
           /\ UNCHANGED <<hasSk, cfgTtl, now, table, op, track>>

\* a faulty touch: the item is replaced by one holding the key and #ex
dbTouchPut(t, dbKey, ex) ==
    dbPut(t, [pk |-> dbKey.pk, sk |-> dbKey.sk, data |-> Absent,
              meta |-> NoAttr, ex |-> [N |-> ex]])

\* UpdateItem 'set #ex = :ex': updates the attribute, and creates an item
\* holding only the key and #ex when none is stored
dbTouch(t, dbKey, ex) ==
    IF dbKey \in DOMAIN t
    THEN [t EXCEPT ![dbKey].ex = [N |-> ex]]
    ELSE dbPut(t, [pk |-> dbKey.pk, sk |-> dbKey.sk, data |-> Absent,
                   meta |-> NoAttr, ex |-> [N |-> ex]])

\* touch(key, ttl) with its arguments drawn from the given sets
touchWith(keySet, ttlSet) ==
    /\ quiet
    /\ op.kind = "idle"
    /\ \E key \in keySet, ttlArg \in ttlSet :
        LET dbKey == deserializeKey(key, hasSk)
            inForce == ttlInForce(ttlArg, cfgTtl)
        IN IF ~keyAccepted(key)
           THEN /\ quiet /\ op.kind = "idle"
                /\ res' = result("touch", <<key, ttlArg>>, "MalformedKey", <<>>, 0)
                /\ UNCHANGED <<hasSk, cfgTtl, now, table, op, track>>
           ELSE IF ~validDbKey(dbKey, hasSk)
           THEN /\ quiet /\ op.kind = "idle"
                /\ res' = result("touch", <<key, ttlArg>>, "ProviderError", <<>>, 1)
                /\ UNCHANGED <<hasSk, cfgTtl, now, table, op, track>>
           ELSE /\ quiet /\ op.kind = "idle"
                /\ table' = dbTouch(table, dbKey, msToS(now + inForce))
                /\ res' = result("touch", <<key, ttlArg>>, "ok", <<>>, 1)
                /\ UNCHANGED <<hasSk, cfgTtl, now, op, track>>

touch == touchWith(LogicalKeys, CallTtls)

----------------------------------------------------------------------------
(* Batch methods: src/src/store.ts mget / mset / mdel.  The synchronous   *)
(* part of the method issues the first request of every chunk; each       *)
(* response is handled when the provider delivers it.                     *)

BatchKeyLists == {<<Kab>>, <<Kabc>>, <<Kab, Kac>>, <<Kab, Kbad>>}

MsetLists ==
    {[i \in DOMAIN ks |-> <<ks[i], d>>] : ks \in BatchKeyLists, d \in Values}

reverse(s) == [i \in 1..Len(s) |-> s[Len(s) + 1 - i]]

\* the elements of s at the positions from i on that are in keep, in order
select(s, keep, i) ==
    LET idx == {j \in DOMAIN s : j >= i /\ j \in keep}
        nth(n) == CHOOSE j \in idx : Cardinality({m \in idx : m < j}) = n - 1
    IN IF idx = {} THEN <<>>
       ELSE IF idx = i..Len(s) THEN SubSeq(s, i, Len(s))
       ELSE [n \in 1..Cardinality(idx) |-> s[nth(n)]]

dbKeyOf(item) == [pk |-> item.pk, sk |-> item.sk]

\* buildMGetInput / buildMDelInput: Keys: keys.map(deserializeKey)
buildKeysInput(keys) == [j \in DOMAIN keys |-> deserializeKey(keys[j], hasSk)]

\* buildMSetInput: one PutRequest per entry, expiresAt taken when building
buildMSetInput(entries, ttlMs) ==
    [j \in DOMAIN entries |->
        buildItem(entries[j][1], entries[j][2], ttlMs, now, hasSk)]

chunkThrows(keys) == \E j \in DOMAIN keys : ~keyAccepted(keys[j])

\* DynamoDB refuses a batch holding an invalid key or the same key twice
batchRefused(req) ==
    \/ \E j \in DOMAIN req : ~validDbKey(dbKeyOf(req[j]), hasSk)
    \/ Cardinality({dbKeyOf(req[j]) : j \in DOMAIN req}) < Len(req)

\* the puts of a request applied in order: of two items with one key the
\* later one stays
dbPutAll(t, items) ==
    LET ks == {dbKeyOf(items[j]) : j \in DOMAIN items}
        last(k) == CHOOSE j \in DOMAIN items :
                       /\ dbKeyOf(items[j]) = k
                       /\ \A m \in DOMAIN items : dbKeyOf(items[m]) = k => m <= j
    IN [x \in (DOMAIN t) \cup ks |-> IF x \in ks THEN items[last(x)] ELSE t[x]]

dbDeleteAll(t, ks) ==
    [x \in (DOMAIN t) \ {dbKeyOf(ks[j]) : j \in DOMAIN ks} |-> t[x]]

\* the logical keys of a chunk, and the request items built from it
keysOfEntries(c) == [j \in DOMAIN c |-> c[j][1]]

keysOf(kind, c) == IF kind = "mset" THEN keysOfEntries(c) ELSE c

buildInput(kind, c, ttlMs) ==
    IF kind = "mset" THEN buildMSetInput(c, ttlMs) ELSE buildKeysInput(c)

\* the state of a batch call right after its synchronous part:
\* an async callback (mget, mset) turns a throw into a rejected chunk and
\* map goes on; a plain callback (mdel) throws out of map, so that the
\* chunks after the throwing one are never sent
startBatch(call, kind, args, size, stopAtThrow, ttlArg) ==
    LET cs == chunk(args, size)
        ttlMs == ttlInForce(ttlArg, cfgTtl)
        throws(i) == chunkThrows(keysOf(kind, cs[i]))
        build(c) == buildInput(kind, c, ttlMs)
        cut(i) == stopAtThrow /\ \E m \in 1..(i - 1) : throws(m)
    IN [kind |-> kind, call |-> call, args |-> args, chunks |-> cs, t0 |-> now,
        ttl |-> ttlMs, ttlArg |-> ttlArg,
        st |-> [i \in DOMAIN cs |->
                   IF cut(i) THEN "unsent"
                   ELSE IF throws(i) THEN "rejected" ELSE "inflight"],
        req |-> [i \in DOMAIN cs |->
                   IF cut(i) \/ throws(i) THEN <<>> ELSE build(cs[i])],
        out |-> [i \in DOMAIN cs |-> <<>>],
        calls |-> [i \in DOMAIN cs |->
                   IF cut(i) \/ throws(i) THEN 0 ELSE 1],
        replies |-> [i \in DOMAIN cs |-> <<>>],
        raised |-> [i \in DOMAIN cs |-> "none"],
        settled |-> \E i \in DOMAIN cs : throws(i),
        before |-> 0]

\* a started call: Promise.all of no chunk resolves at once, a chunk that
\* threw rejects the call at once, the requests sent stay in flight
begin(o) ==
    /\ quiet /\ op.kind = "idle"
    /\ op' = IF \E i \in DOMAIN o.st : o.st[i] = "inflight" THEN o ELSE Idle
    /\ res' = IF o.settled THEN batchResult(o, "MalformedKey", <<>>)
              ELSE IF o.chunks = <<>> THEN batchResult(o, "ok", <<>>)
              ELSE NoRes

mgetStart(args) ==
    /\ begin(startBatch("mget", "mget", args, ReadChunk, FALSE, 0))
    /\ UNCHANGED <<hasSk, cfgTtl, now, table, track>>

\* a write or delete of the tracked key is issued: the history ends
untrack(keys) ==
    track' = IF \E k \in keys : tracked(k) THEN NoTrack ELSE track

msetStart(args, ttlArg) ==
    /\ begin(startBatch("mset", "mset", args, WriteChunk, FALSE, ttlArg))
    /\ untrack({args[i][1] : i \in DOMAIN args})
    /\ UNCHANGED <<hasSk, cfgTtl, now, table>>

mdelStart(args) ==
    /\ begin(startBatch("mdel", "mdel", args, WriteChunk, TRUE, 0))
    /\ untrack({args[i] : i \in DOMAIN args})
    /\ UNCHANGED <<hasSk, cfgTtl, now, table>>

mget == \E args \in BatchKeyLists : mgetStart(args)
mset == \E args \in MsetLists, ttlArg \in CallTtls : msetStart(args, ttlArg)
mdel == \E args \in BatchKeyLists : mdelStart(args)

\* mget's continuation: the response items indexed by serializeKey, then one
\* result per requested key
mgetValues(keys, items) ==
    [j \in DOMAIN keys |->
        LET hits == {m \in DOMAIN items : serializeKey(items[m], hasSk) = keys[j]}
        IN IF hits = {} THEN Absent
           ELSE LET found == items[CHOOSE m \in hits : \A x \in hits : x <= m]
                    item == unmarshall(found)
                IN IF isExpired(item, now) THEN Absent ELSE item.data]

\* the items of a BatchGetItem response: the stored items of the keys the
\* provider processed
stored(t, ks) ==
    LET present == {j \in DOMAIN ks : dbKeyOf(ks[j]) \in DOMAIN t}
        picked == select(ks, present, 1)
    IN [j \in DOMAIN picked |-> t[dbKeyOf(picked[j])]]

\* history variable: a batch write or delete has just settled successfully
trackBatch(o) ==
    LET ks == {k \in LogicalKeys :
                  \E i \in DOMAIN o.args :
                      k = IF o.kind = "mset" THEN o.args[i][1] ELSE o.args[i]}
        entry(k) ==
            IF o.kind = "mdel" THEN [kind |-> "deleted", key |-> k]
            ELSE LET i == CHOOSE m \in DOMAIN o.args : o.args[m][1] = k
                 IN [kind |-> "written", key |-> k, v |-> o.args[i][2],
                     exp |-> o.t0 + o.ttl]
    IN IF track.kind = "none" /\ o.kind \in {"mset", "mdel"}
       THEN track' \in {entry(k) : k \in ks}
       ELSE UNCHANGED track

\* the provider answers the request of chunk i: it fails, or it processes the
\* items at the indexes in keep and reports the others as unprocessed (rev:
\* a read response lists its items in the reverse order); the code handles
\* the response and the call settles when Promise.all does
\* a faulty provider call: the batch read deletes the items it returns
applyBatchEvicting(kind, t, done) ==
    IF kind = "mset" THEN dbPutAll(t, done) ELSE dbDeleteAll(t, done)

\* what the processed items of a request do to the table: BatchWriteItem puts
\* or deletes them, BatchGetItem leaves the table as it is
applyBatch(kind, t, done) ==
    IF kind = "mset" THEN dbPutAll(t, done)
    ELSE IF kind = "mdel" THEN dbDeleteAll(t, done)
    ELSE t

\* a faulty Promise.all: fulfilled as soon as one chunk's promise is
anyFulfilled(st) == \E m \in DOMAIN st : st[m] = "resolved"

\* Promise.all: fulfilled when the promise of every chunk is
allFulfilled(st) == \A m \in DOMAIN st : st[m] = "resolved"

respondWith(i, fail, keep, rev) ==
    LET req == op.req[i]
        refused == fail \/ batchRefused(req)
        done == select(req, keep, 1)
        left == select(req, (DOMAIN req) \ keep, 1)
        found == stored(table, done)
        items == IF rev THEN reverse(found) ELSE found
        typeErr == /\ op.kind = "mget"
                   /\ items # <<>>
                   /\ serializeThrows(items[1], hasSk)
        failed == refused \/ typeErr
        o == [op EXCEPT
                !.st[i] = IF failed THEN "rejected" ELSE "resolved",
                !.replies[i] = IF refused THEN @ ELSE Append(@, left),
                !.raised[i] = IF refused THEN "ProviderError" ELSE @,
                !.out[i] = IF failed \/ op.kind # "mget" THEN <<>>
                           ELSE mgetValues(op.chunks[i], items)]
        settles == ~op.settled /\ (failed \/ allFulfilled(o.st))
    IN /\ table' = IF refused THEN table ELSE applyBatch(op.kind, table, done)
       /\ op' = IF \E m \in DOMAIN o.st : o.st[m] = "inflight"
                THEN [o EXCEPT !.settled = op.settled \/ failed]
                ELSE Idle
       /\ res' = IF ~settles THEN NoRes
                 ELSE IF refused THEN batchResult(o, o.raised[i], <<>>)
                 ELSE IF typeErr THEN batchResult(o, "TypeError", <<>>)
                 ELSE batchResult(o, "ok", flat(o.out))
       /\ IF settles /\ ~failed THEN trackBatch(o) ELSE UNCHANGED track
       /\ UNCHANGED <<hasSk, cfgTtl, now>>

respond ==
    /\ quiet
    /\ op.kind \in {"mget", "mset", "mdel"}
    /\ \E i \in DOMAIN op.st, fail \in BOOLEAN :
        /\ op.st[i] = "inflight"
        /\ \E keep \in (IF fail THEN {{}} ELSE SUBSET (DOMAIN op.req[i])),
              rev \in (IF fail THEN {FALSE} ELSE BOOLEAN) :
            respondWith(i, fail, keep, rev)

----------------------------------------------------------------------------
(* Enumeration: src/src/store.ts keys / reset *)

NoPattern == <<>>            \* keys(): pattern undefined (or the empty string)
NoCursor == [pk |-> <<>>, sk |-> <<>>]

Patterns == {NoPattern, <<"a", "+", "b", "*">>, <<"a", "+", "*">>, <<"a", "*">>}

\* the order in which Scan and Query walk the table
ScanOrder ==
    << [pk |-> <<"a">>, sk |-> <<"b">>], [pk |-> <<"a">>, sk |-> <<"c">>],
       [pk |-> <<"a">>, sk |-> NoAttr],
       [pk |-> <<"p">>, sk |-> <<"b", "a">>], [pk |-> <<"p">>, sk |-> <<"b", "z">>],
       [pk |-> <<"p">>, sk |-> <<"f">>], [pk |-> <<"p">>, sk |-> NoAttr],
       [pk |-> <<"q">>, sk |-> <<"b">>], [pk |-> <<"q">>, sk |-> NoAttr] >>

\* a faulty validateKeyPattern: a second mask character is let through
validateKeyPatternTwoMasks(pattern) ==
    \/ pattern = NoPattern
    \/ /\ endsWith(pattern, MASK)
       /\ Len(split(pattern, MASK)) < 4
       /\ Len(split(pattern, DELIMITER)) = 2

validateKeyPattern(pattern) ==
    \/ pattern = NoPattern
    \/ /\ endsWith(pattern, MASK)
       /\ Len(split(pattern, MASK)) < 3
       /\ Len(split(pattern, DELIMITER)) = 2

\* pattern.replace(MASK, ''): the first mask character is removed
eraseMask(pattern) ==
    IF \A i \in 1..Len(pattern) : pattern[i] # MASK THEN pattern
    ELSE LET i == CHOOSE j \in 1..Len(pattern) :
                      pattern[j] = MASK /\ \A m \in 1..(j - 1) : pattern[m] # MASK
         IN SubSeq(pattern, 1, i - 1) \o SubSeq(pattern, i + 1, Len(pattern))

\* a begins_with that compares lengths only
isPrefixByLength(p, s) == Len(p) <= Len(s)

isPrefix(p, s) == Len(p) <= Len(s) /\ SubSeq(s, 1, Len(p)) = p

\* buildQueryKeysInput: '#pk = :pk and begins_with(#sk, :sk)'
buildQueryKeysInput(pattern) == deserializeKey(eraseMask(pattern), hasSk)

\* DynamoDB refuses a key condition on a sort attribute the schema lacks,
\* and an empty string as the value of a key attribute
queryRefused(q) == ~hasSk \/ q.sk = <<>> \/ q.sk = Undefined

matches(pattern, k) ==
    \/ pattern = NoPattern
    \/ LET q == buildQueryKeysInput(pattern)
       IN k.pk = q.pk /\ isPrefix(q.sk, k.sk)

rank(k) == IF k = NoCursor THEN 0
           ELSE CHOOSE i \in DOMAIN ScanOrder : ScanOrder[i] = k

\* the stored keys of ScanOrder from position i on that match the pattern
\* and come after the cursor, in order
RECURSIVE walkFrom(_, _, _)
walkFrom(pattern, cursor, i) ==
    IF i > Len(ScanOrder) THEN <<>>
    ELSE (IF /\ i > rank(cursor)
             /\ ScanOrder[i] \in DOMAIN table
             /\ matches(pattern, ScanOrder[i])
          THEN <<ScanOrder[i]>> ELSE <<>>) \o walkFrom(pattern, cursor, i + 1)

\* a faulty request: the cursor is left out and the walk starts again
remainingFromStart(pattern, cursor) == walkFrom(pattern, NoCursor, 1)

\* the stored keys a request with this cursor has still to walk, in order
remaining(pattern, cursor) == walkFrom(pattern, cursor, 1)

\* the synchronous part of keys(): the pattern is validated, the first
\* request is built and sent
startKeys(call, pattern) ==
    /\ quiet /\ op.kind = "idle"
    /\ IF ~validateKeyPattern(pattern)
       THEN /\ res' = result(call, <<pattern>>, "InvalidPattern", <<>>, 0)
            /\ UNCHANGED op
       ELSE IF pattern # NoPattern /\ ~keyAccepted(eraseMask(pattern))
       THEN /\ res' = result(call, <<pattern>>, "MalformedKey", <<>>, 0)
            /\ UNCHANGED op
       ELSE /\ op' = [kind |-> "keys", call |-> call, pattern |-> pattern,
                      cursor |-> NoCursor, acc |-> <<>>, calls |-> 1]
            /\ UNCHANGED res

\* keys(pattern) with its argument drawn from the given set
keysWith(patterns) ==
    \E pattern \in patterns :
        /\ startKeys("keys", pattern)
        /\ UNCHANGED <<hasSk, cfgTtl, now, table, track>>

keys == keysWith(Patterns)

reset ==
    /\ startKeys("reset", NoPattern)
    /\ track' = IF track.kind = "off" THEN track ELSE NoTrack
    /\ UNCHANGED <<hasSk, cfgTtl, now, table>>

\* the provider answers the Scan / Query in flight with the next n keys and,
\* when more is set, a LastEvaluatedKey; keys() loops or returns, and reset()
\* goes on with mdel(...keys)
page ==
    /\ quiet
    /\ op.kind = "keys"
    /\ \E fail \in BOOLEAN, left \in {remaining(op.pattern, op.cursor)} :
        LET refused == \/ fail
                       \/ op.pattern # NoPattern
                          /\ queryRefused(buildQueryKeysInput(op.pattern))
        IN \E n \in (IF refused THEN {0}
                     ELSE IF left = <<>> THEN {0} ELSE 1..Len(left)),
              more \in (IF refused \/ left = <<>> THEN {FALSE} ELSE BOOLEAN) :
            \E items \in {SubSeq(left, 1, n)} :
            \E acc \in {op.acc \o [j \in DOMAIN items |->
                                     serializeKey(items[j], hasSk)]} :
            LET typeErr == items # <<>> /\ serializeThrows(items[1], hasSk)
                del0 == startBatch("reset", "mdel", acc, WriteChunk, TRUE, 0)
                mdel0 == [del0 EXCEPT !.before = op.calls]
            IN /\ (~refused /\ n < Len(left)) => more
               /\ IF refused \/ typeErr
                  THEN /\ op' = Idle
                       /\ res' = result(op.call, <<op.pattern>>,
                                        IF refused THEN "ProviderError"
                                        ELSE "TypeError", <<>>, op.calls)
                  ELSE IF more
                  THEN /\ op' = [op EXCEPT !.cursor = items[n], !.acc = acc,
                                           !.calls = @ + 1]
                       /\ UNCHANGED res
                  ELSE IF op.call = "keys"
                  THEN /\ op' = Idle
                       /\ res' = result("keys", <<op.pattern>>, "ok", acc,
                                        op.calls)
                  ELSE /\ op' = IF mdel0.chunks = <<>> THEN Idle ELSE mdel0
                       /\ res' = IF mdel0.chunks = <<>>
                                 THEN batchResult(mdel0, "ok", <<>>)
                                 ELSE NoRes
               /\ UNCHANGED <<hasSk, cfgTtl, now, table, track>>

Next ==
    \/ Tick
    \/ resume
    \/ get
    \/ set
    \/ del
    \/ ttl
    \/ touch
    \/ mget
    \/ mset
    \/ mdel
    \/ respond
    \/ keys
    \/ reset
    \/ page

Spec == Init /\ [][Next]_vars

\* the reads, writes and deletes of entries, with the history kept
NextHist ==
    \/ Tick
    \/ resume
    \/ get
    \/ set
    \/ del
    \/ mget
    \/ mset
    \/ mdel
    \/ respond

SpecHist == InitHist /\ [][NextHist]_vars

----------------------------------------------------------------------------
(* Long argument lists: how mget / mset / mdel cut them into requests *)

longKey(i) == <<"k", DELIMITER, ToString(i)>>

\* n keys, the one at position bad (if any) malformed
longKeys(n, bad) == [i \in 1..n |-> IF i = bad THEN Kbad ELSE longKey(i)]

longEntries(n, bad) == [i \in 1..n |-> <<longKeys(n, bad)[i], "v1">>]

BadAt(n) == {0, 1, n} \cap (0..n)

mgetLong ==
    \E n \in 0..MaxItems : \E bad \in BadAt(n) : mgetStart(longKeys(n, bad))

msetLong ==
    \E n \in 0..MaxItems : \E bad \in BadAt(n) :
        msetStart(longEntries(n, bad), 0)

mdelLong ==
    \E n \in 0..MaxItems : \E bad \in BadAt(n) : mdelStart(longKeys(n, bad))

\* a throttled provider: it answers the oldest request in flight and reports
\* every item of it as unprocessed
respondNone ==
    /\ quiet
    /\ op.kind \in {"mget", "mset", "mdel"}
    /\ \E i \in DOMAIN op.st :
        /\ op.st[i] = "inflight"
        /\ \A m \in 1..(i - 1) : op.st[m] # "inflight"
        /\ respondWith(i, FALSE, {}, FALSE)

NextChunk ==
    \/ mgetLong
    \/ msetLong
    \/ mdelLong
    \/ respondNone
    \/ resume

SpecChunk == Init /\ [][NextChunk]_vars

----------------------------------------------------------------------------
(* Fan-out: the requests of one call answered in any order *)

\* list lengths that make two and three write chunks, and two read chunks
FanWrites == {WriteChunk + 1, 2 * WriteChunk + 1}
FanReads == {ReadChunk + 1}

mgetFan ==
    \E n \in FanReads : \E bad \in BadAt(n) : mgetStart(longKeys(n, bad))

msetFan ==
    \E n \in FanWrites : \E bad \in BadAt(n) :
        msetStart(longEntries(n, bad), 0)

mdelFan ==
    \E n \in FanWrites : \E bad \in BadAt(n) : mdelStart(longKeys(n, bad))

\* the provider answers any request in flight: with an error, or processing
\* all of its items, or none of them
respondAny ==
    /\ quiet
    /\ op.kind \in {"mget", "mset", "mdel"}
    /\ \E i \in DOMAIN op.st, fail \in BOOLEAN :
        /\ op.st[i] = "inflight"
        /\ \E keep \in (IF fail THEN {{}} ELSE {{}, DOMAIN op.req[i]}) :
            respondWith(i, fail, keep, FALSE)

NextFan ==
    \/ mgetFan
    \/ msetFan
    \/ mdelFan
    \/ respondAny
    \/ resume

SpecFan == Init /\ [][NextFan]_vars

----------------------------------------------------------------------------
(* Enumeration over two partitions *)

Kpba == <<"p", "+", "b", "a">>
Kpbz == <<"p", "+", "b", "z">>
Kpf == <<"p", "+", "f">>
Kqb == <<"q", "+", "b">>

ListedKeys == {Kpba, Kpbz, Kpf, Kqb}

ListedPatterns ==
    {NoPattern, <<"p", "+", "b", "*">>, <<"p", "+", "b", "a", "*">>,
     <<"p", "+", "*">>, <<"q", "+", "b", "*">>, <<"q", "+", "f", "*">>}

setListed == setWith(ListedKeys, {"v1"}, {0})

keysListed == keysWith(ListedPatterns)

NextKeys ==
    \/ setListed
    \/ keysListed
    \/ page
    \/ resume

SpecKeys == Init /\ [][NextKeys]_vars

\* the provider answers every request it is sent
SpecKeysLive == SpecKeys /\ WF_vars(page)

----------------------------------------------------------------------------
(* The key codec on its own: src/src/utils.ts serializeKey / deserializeKey *)

CodecAlphabet == {"a", "b", DELIMITER}

\* every string over the alphabet up to the longest length, '' included
CodecKeys == UNION {[1..n -> CodecAlphabet] : n \in 0..MaxKeyLen}

\* deserializeKey(key, config)
decodeKey ==
    /\ quiet
    /\ op.kind = "idle"
    /\ \E key \in CodecKeys :
        res' = IF keyAccepted(key)
               THEN result("deserializeKey", <<key>>, "ok",
                           <<deserializeKey(key, hasSk)>>, 0)
               ELSE result("deserializeKey", <<key>>, "MalformedKey", <<>>, 0)
    /\ UNCHANGED <<hasSk, cfgTtl, now, table, op, track>>

\* serializeKey(dbKey, config) of the store key just decoded
encodeRecord ==
    /\ res.op = "deserializeKey"
    /\ res.status = "ok"
    /\ LET r == res.vals[1]
       IN res' = IF serializeThrows(r, hasSk)
                 THEN result("serializeKey", <<res.args[1], r>>, "TypeError",
                             <<>>, 0)
                 ELSE result("serializeKey", <<res.args[1], r>>, "ok",
                             <<serializeKey(r, hasSk)>>, 0)
    /\ UNCHANGED <<hasSk, cfgTtl, now, table, op, track>>

\* deserializeKey(serializeKey(dbKey, config), config)
decodeEncoded ==
    /\ res.op = "serializeKey"
    /\ res.status = "ok"
    /\ LET k == res.vals[1]
       IN res' = IF keyAccepted(k)
                 THEN result("decodeEncoded", <<res.args[2]>>, "ok",
                             <<deserializeKey(k, hasSk)>>, 0)
                 ELSE result("decodeEncoded", <<res.args[2]>>, "MalformedKey",
                             <<>>, 0)
    /\ UNCHANGED <<hasSk, cfgTtl, now, table, op, track>>

NextCodec ==
    \/ decodeKey
    \/ encodeRecord
    \/ decodeEncoded
    \/ resume

SpecCodec == Init /\ [][NextCodec]_vars

----------------------------------------------------------------------------
(* keys(pattern) for every short pattern: src/src/utils.ts validateKeyPattern *)

PatternAlphabet == {"a", DELIMITER, MASK}

\* every string over the alphabet up to the longest length; '' is falsy and
\* stands for the absent pattern too
PatternStrings == UNION {[1..n -> PatternAlphabet] : n \in 0..MaxKeyLen}

keysAny == keysWith(PatternStrings)

NextPattern ==
    \/ keysAny
    \/ page
    \/ resume

SpecPattern == Init /\ [][NextPattern]_vars

----------------------------------------------------------------------------
(* Expiration times: set / mset / touch with several ttl arguments *)

TtlArgs == {0, 400, 1400, 1600}

setTtl == setWith({Kab}, {"v1"}, TtlArgs)

touchTtl == touchWith({Kab, Kac}, TtlArgs)

msetTtl ==
    \E ttlArg \in TtlArgs : msetStart(<<<<Kab, "v1">>, <<Kac, "null">>>>, ttlArg)

NextTtl ==
    \/ Tick
    \/ resume
    \/ setTtl
    \/ touchTtl
    \/ msetTtl
    \/ respond

SpecTtl == Init /\ [][NextTtl]_vars

----------------------------------------------------------------------------
(* Properties *)

BatchCalls == {"mget", "mset", "mdel"}

\* the entry stored under store key k has its expiration time behind it
expiredAt(k) == k \in DOMAIN table /\ table[k].ex.N * 1000 < now

\* what a read of store key k is to return
storedValue(k) ==
    IF k \notin DOMAIN table \/ expiredAt(k) THEN Absent ELSE table[k].data

\* C1: write-then-read.  After set(k, v, ttl) or an mset holding (k, v) has
\* completed successfully, and with no later write or delete of k, every
\* get(k) and mget(.. k ..) that returns before the write time plus the ttl
\* in force returns v.
C1_WriteThenRead ==
    (/\ track.kind = "written"
     /\ res.op \in {"get", "mget"}
     /\ res.status = "ok"
     /\ now < track.exp)
    => \A i \in DOMAIN res.args :
           res.args[i] = track.key => res.vals[i] = track.v

\* C2: mget(k1..kn) returns n results, result i being the value stored under
\* ki when ki is present and not expired and the absent marker otherwise,
\* whatever the order of the items in the response.
C2_MgetResults ==
    (res.op = "mget" /\ res.status = "ok")
    => /\ Len(res.vals) = Len(res.args)
       /\ \A i \in DOMAIN res.args :
              res.vals[i] = storedValue(deserializeKey(res.args[i], hasSk))

\* C3: retry termination.  A chunk of mget / mset / mdel whose every response
\* reported a non-empty unprocessed subset makes the call fail with
\* UnprocessedData after exactly MaxAttempts provider calls for that chunk.
C3_RetryTermination ==
    res.op \in BatchCalls
    => \A i \in DOMAIN res.replies :
           (/\ res.replies[i] # <<>>
            /\ res.raised[i] = "none"
            /\ \A j \in DOMAIN res.replies[i] : res.replies[i][j] # <<>>)
           => /\ res.status = "UnprocessedData"
              /\ res.chunkCalls[i] = MaxAttempts

\* C4: retry success.  A call of mget / mset / mdel completes successfully
\* exactly when every chunk has received a response with nothing unprocessed,
\* after one provider call more than the responses that reported something
\* unprocessed (two such responses give three calls), and not before.
C4_RetrySuccess ==
    (res.op \in BatchCalls /\ res.status = "ok")
    => \A i \in DOMAIN res.replies :
           LET r == res.replies[i]
           IN /\ Len(r) >= 1
              /\ res.chunkCalls[i] = Len(r)
              /\ r[Len(r)] = <<>>
              /\ \A j \in 1..(Len(r) - 1) : r[j] # <<>>

\* C5: a provider error on a request of mget / mset / mdel: that chunk's
\* request has been sent exactly once and the caller receives that error,
\* unchanged.
C5_ProviderErrorPropagates ==
    res.op \in BatchCalls
    => \A i \in DOMAIN res.raised :
           res.raised[i] # "none"
           => /\ res.chunkCalls[i] = 1
              /\ Len(res.sent[i]) = 1
              /\ res.status = res.raised[i]

\* a provider error has settled an mset call
C5_Witness ==
    /\ res.op = "mset"
    /\ res.raised = <<"ProviderError">>
    /\ res.status = "ProviderError"
    /\ res.chunkCalls = <<1>>

\* C6: every response of a chunk that reports a non-empty unprocessed subset
\* (with attempts left) is followed by a request of that chunk carrying
\* exactly that subset, as the provider reported it.
C6_RetryCarriesRemainder ==
    res.op \in BatchCalls
    => \A i \in DOMAIN res.replies :
           \A j \in DOMAIN res.replies[i] :
               (res.replies[i][j] # <<>> /\ j < MaxAttempts)
               => /\ Len(res.sent[i]) > j
                  /\ res.sent[i][j + 1] = res.replies[i][j]

\* C7: chunk boundaries.  No read request carries more than 100 keys and no
\* write or delete request more than 25 items; for a list of n accepted keys
\* the requests are ceil(n / size) in number, all full except possibly the
\* last, and cover the list once, in order (150 read keys: 100 and 50; 30
\* write entries: 25 and 5).
C7_ChunkBoundaries ==
    op.kind \in BatchCalls
    => LET size == IF op.kind = "mget" THEN 100 ELSE 25
           n == Len(op.args)
           ks == keysOf(op.kind, op.args)
           valid == \A j \in DOMAIN ks : keyAccepted(ks[j])
           lens == [i \in DOMAIN op.req |-> Len(op.req[i])]
           sentKeys == flat([i \in DOMAIN op.req |->
                               [j \in DOMAIN op.req[i] |-> dbKeyOf(op.req[i][j])]])
       IN /\ \A i \in DOMAIN lens : lens[i] <= size
          /\ valid
             => /\ Len(lens) = (n + size - 1) \div size
                /\ \A i \in 1..(Len(lens) - 1) : lens[i] = size
                /\ Len(lens) > 0 => lens[Len(lens)] \in 1..size
                /\ \A i \in DOMAIN lens : op.calls[i] = 1
                /\ sentKeys = [j \in 1..n |-> deserializeKey(ks[j], hasSk)]
                /\ (op.kind = "mget" /\ n = 150) => lens = <<100, 50>>
                /\ (op.kind # "mget" /\ n = 30) => lens = <<25, 5>>

\* mget of 150 accepted keys has sent its two requests
C7_Witness ==
    /\ op.kind = "mget"
    /\ Len(op.args) = 150
    /\ \A j \in DOMAIN op.args : keyAccepted(op.args[j])
    /\ [i \in DOMAIN op.req |-> Len(op.req[i])] = <<100, 50>>
    /\ op.calls = <<1, 1>>

\* C8: when a chunk of mget needs several attempts (its first response
\* reported unprocessed keys), the later attempts are made and the result
\* holds, at the position of its key, the value of every item returned by
\* any attempt.
C8_MgetMergesAttempts ==
    (res.op = "mget" /\ res.status = "ok")
    => \A i \in DOMAIN res.replies :
           res.replies[i][1] # <<>>
           => /\ res.chunkCalls[i] >= 2
              /\ \A j \in (DOMAIN res.sent[i]) \cap (DOMAIN res.replies[i]) :
                     \A m \in DOMAIN res.sent[i][j] :
                         LET k == res.sent[i][j][m]
                             returned ==
                                 /\ \A u \in DOMAIN res.replies[i][j] :
                                        res.replies[i][j][u] # k
                                 /\ k \in DOMAIN table
                                 /\ ~expiredAt(k)
                         IN returned
                            => \A p \in DOMAIN res.args :
                                   deserializeKey(res.args[p], hasSk) = k
                                   => res.vals[p] = table[k].data

\* C9: expiration asymmetry.  While the table holds an entry with
\* expiresAt * 1000 < now, get and mget of its key return absent, and keys()
\* and keys(pattern) with a pattern matching it still list its key.
C9_ExpiredAbsentButListed ==
    LET expired(k) == expiredAt(k)
    IN /\ (res.op \in {"get", "mget"} /\ res.status = "ok")
          => \A i \in DOMAIN res.args :
                 expired(deserializeKey(res.args[i], hasSk))
                 => res.vals[i] = Absent
       /\ (res.op = "keys" /\ res.status \in {"ok", "TypeError"})
          => \A k \in DOMAIN table :
                 (expired(k) /\ matches(res.args[1], k))
                 => /\ res.status = "ok"
                    /\ \E j \in DOMAIN res.vals :
                           res.vals[j] = serializeKey(table[k], hasSk)

\* C10: deletion.  After del(k) or an mdel holding k has completed
\* successfully, and until the next write of k, get(k) and mget(.. k ..)
\* return absent; del of an accepted key succeeds whether or not it is stored.
C10_DeletedStaysAbsent ==
    /\ (/\ track.kind = "deleted"
        /\ res.op \in {"get", "mget"}
        /\ res.status = "ok")
       => \A i \in DOMAIN res.args :
              res.args[i] = track.key => res.vals[i] = Absent
    /\ (/\ res.op = "del"
        /\ keyAccepted(res.args[1])
        /\ validDbKey(deserializeKey(res.args[1], hasSk), hasSk))
       => res.status = "ok"

\* touch(key, ttlArg) has just succeeded on the stored entry of key
touchedStored(key, ttlArg) ==
    /\ quiet
    /\ res' = result("touch", <<key, ttlArg>>, "ok", <<>>, 1)
    /\ deserializeKey(key, hasSk) \in DOMAIN table

\* what touch leaves alone: every other entry, and of the touched entry
\* everything but the expiration attribute; get returns what it returned
touchFrame(key) ==
    LET k == deserializeKey(key, hasSk)
    IN /\ DOMAIN table' = DOMAIN table
       /\ \A x \in (DOMAIN table) \ {k} : table'[x] = table[x]
       /\ table'[k] = [table[k] EXCEPT !.ex = table'[k].ex]
       /\ getValue(k)' = getValue(k)

\* C11 (as stated): touch(k, ttl) on a stored entry changes only its
\* expiration attribute, get(k) returns the same value, the metadata is
\* unchanged, and ttl(k) increases whenever the new ttl is larger than the
\* remaining lifetime.
C11_TouchExtends ==
    [][\A key \in LogicalKeys, ttlArg \in CallTtls :
          touchedStored(key, ttlArg)
          => LET k == deserializeKey(key, hasSk)
                 t == ttlInForce(ttlArg, cfgTtl)
             IN /\ touchFrame(key)
                /\ t > ttlValue(k) => ttlValue(k)' > ttlValue(k)]_vars

\* C11 (amended): touch(k, ttl) on a stored entry changes only its
\* expiration attribute, get(k) returns the same value, the metadata is
\* unchanged, and ttl(k) becomes round((now + ttl) / 1000) * 1000 - now: it
\* does not decrease when the new ttl is larger than the remaining lifetime,
\* and increases when it is larger by 500 ms or more.
C11_TouchOnlyExpiration ==
    [][\A key \in LogicalKeys, ttlArg \in CallTtls :
          touchedStored(key, ttlArg)
          => LET k == deserializeKey(key, hasSk)
                 t == ttlInForce(ttlArg, cfgTtl)
             IN /\ touchFrame(key)
                /\ ttlValue(k)' = msToS(now + t) * 1000 - now
                /\ t > ttlValue(k) => ttlValue(k)' >= ttlValue(k)
                /\ t >= ttlValue(k) + 500 => ttlValue(k)' > ttlValue(k)]_vars

\* touch('a+b', 1400) has succeeded on an entry that set had written
C11_Witness ==
    /\ res.op = "touch"
    /\ res.status = "ok"
    /\ res.args = <<Kab, 1400>>
    /\ deserializeKey(Kab, hasSk) \in DOMAIN table
    /\ table[deserializeKey(Kab, hasSk)].data = "v1"
    /\ table[deserializeKey(Kab, hasSk)].ex.N = msToS(now + 1400)

\* C12 (as stated): ttl(k) returns expiresAt * 1000 - now when the store
\* holds an entry for k, a positive number for an entry that is not expired,
\* and returns -1 exactly when no entry for k is stored.
C12_TtlSentinel ==
    (res.op = "ttl" /\ res.status = "ok")
    => LET k == deserializeKey(res.args[1], hasSk)
       IN /\ k \in DOMAIN table
             => /\ res.vals[1] = table[k].ex.N * 1000 - now
                /\ ~expiredAt(k) => res.vals[1] > 0
          /\ res.vals[1] = -1 <=> k \notin DOMAIN table

\* C12 (amended): ttl(k) returns expiresAt * 1000 - now when the store holds
\* an entry for k (not negative for an entry that is not expired, negative
\* for an expired entry still held), and -1 when no entry for k is stored; a
\* result of -1 means that no entry is stored or that the entry held is
\* expired.
C12_TtlValue ==
    (res.op = "ttl" /\ res.status = "ok")
    => LET k == deserializeKey(res.args[1], hasSk)
       IN /\ k \in DOMAIN table
             => /\ res.vals[1] = table[k].ex.N * 1000 - now
                /\ ~expiredAt(k) => res.vals[1] >= 0
                /\ expiredAt(k) => res.vals[1] < 0
          /\ k \notin DOMAIN table => res.vals[1] = -1
          /\ res.vals[1] = -1 => (k \notin DOMAIN table \/ expiredAt(k))

\* ttl(k) has returned the remaining lifetime of a stored, unexpired entry
C12_Witness ==
    /\ res.op = "ttl"
    /\ res.status = "ok"
    /\ deserializeKey(res.args[1], hasSk) \in DOMAIN table
    /\ ~expiredAt(deserializeKey(res.args[1], hasSk))
    /\ res.vals[1] > 0

\* the partition and the sort prefix a pattern "<partition>+<prefix>*" names
patternPartition(pattern) == split(pattern, "+")[1]

patternPrefix(pattern) ==
    LET rest == split(pattern, "+")[2]
    IN SubSeq(rest, 1, Len(rest) - 1)

\* the logical key of a stored entry: partition, delimiter, sort value
logicalKey(k) == IF k.sk = NoAttr THEN k.pk ELSE k.pk \o <<"+">> \o k.sk

\* C13: keys("<partition>+<prefix>*") returns exactly the logical keys of the
\* stored entries of that partition whose sort value begins with the prefix,
\* each once.
C13_KeysByPattern ==
    (res.op = "keys" /\ res.status = "ok" /\ res.args[1] # NoPattern)
    => LET part == patternPartition(res.args[1])
           prefix == patternPrefix(res.args[1])
           wanted == {k \in DOMAIN table :
                         /\ k.pk = part
                         /\ k.sk # NoAttr
                         /\ Len(k.sk) >= Len(prefix)
                         /\ SubSeq(k.sk, 1, Len(prefix)) = prefix}
       IN /\ {res.vals[j] : j \in DOMAIN res.vals} = {logicalKey(k) : k \in wanted}
          /\ Len(res.vals) = Cardinality(wanted)

\* keys("p+b*") has returned p+ba and p+bz while p+f and q+b are stored too
C13_Witness ==
    /\ res.op = "keys"
    /\ res.status = "ok"
    /\ res.args[1] = <<"p", "+", "b", "*">>
    /\ {res.vals[j] : j \in DOMAIN res.vals} = {Kpba, Kpbz}
    /\ Cardinality(DOMAIN table) = 4

\* the store's keys in the order the provider walks them
walk == remaining(NoPattern, NoCursor)

\* C14: keys() with no pattern, unless a provider request fails, returns the
\* logical key of every entry held by the store, each exactly once, in the
\* order of the pages, however the listing is split into pages.
C14_KeysListsAll ==
    (res.op = "keys" /\ res.args[1] = NoPattern /\ res.status # "ProviderError")
    => /\ res.status = "ok"
       /\ res.vals = [j \in DOMAIN walk |-> logicalKey(walk[j])]
       /\ Len(res.vals) = Cardinality(DOMAIN table)

\* C15: when reset() completes successfully, nothing else running, the store
\* holds no entry at all.
C15_ResetEmpties ==
    (res.op = "reset" /\ res.status = "ok") => DOMAIN table = {}

\* C16: for every logical key k that decode accepts, encode(decode(k)) = k
\* under the schema in force.
C16_KeyRoundTrip ==
    res.op = "serializeKey" => res.status = "ok" /\ res.vals[1] = res.args[1]

\* C17: for every store key r the system produces, encode(r) succeeds and
\* decode(encode(r)) = r.
C17_RecordRoundTrip ==
    /\ res.op = "serializeKey" => res.status = "ok"
    /\ res.op = "decodeEncoded" => res.status = "ok" /\ res.vals[1] = res.args[1]

\* how often a character occurs in a string
count(str, c) == Cardinality({i \in DOMAIN str : str[i] = c})

endsWithOneMask(p) ==
    /\ Len(p) > 0
    /\ p[Len(p)] = "*"
    /\ Len(p) > 1 => p[Len(p) - 1] # "*"

\* C18 as stated: an absent pattern is accepted, and a pattern is accepted
\* exactly when it ends with exactly one mask character, contains exactly one
\* delimiter and contains the mask character at most twice; every other
\* pattern is rejected with InvalidPattern before any provider call.
C18_PatternMaskTwice ==
    res.op = "keys"
    => LET p == res.args[1]
           valid == \/ p = <<>>
                    \/ /\ endsWithOneMask(p)
                       /\ count(p, "+") = 1
                       /\ count(p, "*") <= 2
       IN /\ res.status = "InvalidPattern" <=> ~valid
          /\ res.status = "InvalidPattern" => res.calls = 0

\* C18 amended: an absent pattern is accepted, and a pattern is accepted
\* exactly when its last character is the mask character, it contains the
\* mask character exactly once and it contains exactly one delimiter; every
\* other pattern is rejected with InvalidPattern before any provider call.
C18_PatternMaskOnce ==
    res.op = "keys"
    => LET p == res.args[1]
           valid == \/ p = <<>>
                    \/ /\ Len(p) > 0 /\ p[Len(p)] = "*"
                       /\ count(p, "+") = 1
                       /\ count(p, "*") = 1
       IN /\ res.status = "InvalidPattern" <=> ~valid
          /\ res.status = "InvalidPattern" => res.calls = 0

\* the pattern a*+a*, two mask characters and a single one at the end, has
\* been rejected before any provider call
C18_Witness ==
    /\ res.op = "keys"
    /\ res.args[1] = <<"a", "*", "+", "a", "*">>
    /\ res.status = "InvalidPattern"
    /\ res.calls = 0

\* the logical keys the settled call was given
argKeys ==
    IF res.op \in {"get", "set", "del", "ttl", "touch"} THEN {res.args[1]}
    ELSE IF res.op = "mset" THEN {res.args[i][1] : i \in DOMAIN res.args}
    ELSE IF res.op \in {"mget", "mdel"} THEN {res.args[i] : i \in DOMAIN res.args}
    ELSE {}

malformed(k) == k = <<>> \/ k[1] = "+"

\* C19: a call of get, set, del, ttl, touch, mget, mset or mdel that was given
\* an empty key or a key starting with the delimiter fails with MalformedKey
\* and has issued no provider request, also when the key lies in a later
\* chunk than the first.
C19_MalformedKeyNoRequest ==
    (\E k \in argKeys : malformed(k))
    => res.status = "MalformedKey" /\ res.calls = 0

\* the chunk a position of the argument list falls in, and the chunks whose
\* request could not be built
chunkSize == IF res.op = "mget" THEN 100 ELSE 25

keyAt(j) == IF res.op = "mset" THEN res.args[j][1] ELSE res.args[j]

threw(i) ==
    \E j \in DOMAIN res.args :
        (j - 1) \div chunkSize + 1 = i /\ malformed(keyAt(j))

failedChunks == {i \in DOMAIN res.raised : threw(i) \/ res.raised[i] # "none"}

\* the items of chunk i the provider has processed
applied(i) ==
    IF Len(res.replies[i]) = 0 THEN {}
    ELSE {res.sent[i][1][m] : m \in DOMAIN res.sent[i][1]}
             \ {res.replies[i][1][m] : m \in DOMAIN res.replies[i][1]}

C21_UnprocessedDataCarriesSubset ==
    res.op \in BatchCalls
    => \A i \in DOMAIN res.replies :
           LET r == res.replies[i]
           IN (/\ r # <<>>
               /\ res.raised[i] = "none"
               /\ \A j \in DOMAIN r : r[j] # <<>>)
              => /\ res.status = "UnprocessedData"
                 /\ res.vals = r[Len(r)]

\* e is (x / 1000) rounded to the nearest whole number, halves upwards
rounded(e, x) == 1000 * e - 500 <= x /\ x < 1000 * e + 500

\* C22: a set or touch that succeeds leaves its entry with expiration
\* round((now + ttl) / 1000) seconds, ttl the ttl in force for the call; every
\* item of the requests an mset call builds has that expiration for the one
\* ttl in force for the call, and the entries an mset writes are those items.
C22_ExpiresAtRounded ==
    [][/\ \A key \in LogicalKeys, ttlArg \in TtlArgs :
              (/\ quiet
               /\ \/ res' = result("set", <<key, ttlArg>>, "ok", <<>>, 1)
                  \/ res' = result("touch", <<key, ttlArg>>, "ok", <<>>, 1))
              => rounded(table'[deserializeKey(key, hasSk)].ex.N,
                         now + ttlInForce(ttlArg, cfgTtl))
       /\ (op.kind = "idle" /\ op'.kind = "mset")
              => \A i \in DOMAIN op'.req : \A m \in DOMAIN op'.req[i] :
                     rounded(op'.req[i][m].ex.N,
                             now + ttlInForce(op'.ttlArg, cfgTtl))
       /\ (op.kind = "mset" /\ table' # table)
              => \A k \in DOMAIN table' :
                     (k \notin DOMAIN table \/ table'[k] # table[k])
                     => \E i \in DOMAIN op.req : \E m \in DOMAIN op.req[i] :
                            op.req[i][m] = table'[k]
      ]_vars

\* set('a+b', 'v1', 1600) at time 0 has stored expiration 2, rounded upwards
C22_Witness ==
    /\ res.op = "set"
    /\ res.status = "ok"
    /\ res.args = <<Kab, 1600>>
    /\ now = 0
    /\ table[deserializeKey(Kab, hasSk)].ex.N = 2

C24_EncodeBySchema ==
    /\ (res.op = "keys" /\ res.args[1] = NoPattern /\ res.status # "ProviderError")
       => /\ res.status = "ok"
          /\ \A j \in DOMAIN res.vals :
                 \E k \in DOMAIN table :
                     res.vals[j] = IF hasSk THEN k.pk \o <<"+">> \o k.sk ELSE k.pk
    /\ (res.op = "mget" /\ res.status \notin {"ProviderError", "MalformedKey"})
       => res.status = "ok"

\* C25: the first request of keys() carries no cursor; every later request
\* is sent after the response to the one before it and carries the cursor of
\* that response, so each page holds the keys that follow that cursor; keys()
\* returns on the first response without cursor, sending nothing more; and
\* keys() returns once the provider has answered without cursor.
C25_EnumerationLoop ==
    /\ [][/\ (op.kind = "idle" /\ op'.kind = "keys")
             => op'.cursor = NoCursor /\ op'.calls = 1 /\ op'.acc = <<>>
          /\ (op.kind = "keys" /\ op'.kind = "keys")
             => /\ op'.calls = op.calls + 1
                /\ rank(op'.cursor) > rank(op.cursor)
                /\ Len(op'.acc) - Len(op.acc) =
                       Cardinality({i \in DOMAIN ScanOrder :
                                       /\ rank(op.cursor) < i
                                       /\ i <= rank(op'.cursor)
                                       /\ ScanOrder[i] \in DOMAIN table
                                       /\ matches(op.pattern, ScanOrder[i])})
          /\ (op.kind = "keys" /\ op.call = "keys" /\ op'.kind = "idle")
             => res'.op = "keys" /\ res'.calls = op.calls
         ]_vars
    /\ (op.kind = "keys") ~> (op.kind = "idle")

\* keys() has returned four keys after three requests
C25_Witness ==
    /\ res.op = "keys"
    /\ res.status = "ok"
    /\ res.calls = 3
    /\ Len(res.vals) = 4

\* C26: element i of the result of a successful mget(k1 .. kn) is what
\* get(ki) returns on the same table at the same time.
C26_MgetAgreesWithGet ==
    (res.op = "mget" /\ res.status = "ok")
    => /\ Len(res.vals) = Len(res.args)
       /\ \A i \in DOMAIN res.args :
              res.vals[i] = getValue(deserializeKey(res.args[i], hasSk))

\* C27: key isolation.  A set, del or touch of an accepted logical key k1
\* that succeeds leaves what get(k2) and ttl(k2) return unchanged for every
\* other accepted logical key k2.
C27_KeyIsolation ==
    [][\A k1 \in LogicalKeys, k2 \in LogicalKeys :
           (/\ k1 # k2
            /\ ~malformed(k1) /\ ~malformed(k2)
            /\ quiet
            /\ res'.op \in {"set", "del", "touch"}
            /\ res'.status = "ok"
            /\ res'.args[1] = k1)
           => /\ getValue(deserializeKey(k2, hasSk))'
                     = getValue(deserializeKey(k2, hasSk))
              /\ ttlValue(deserializeKey(k2, hasSk))'
                     = ttlValue(deserializeKey(k2, hasSk))]_vars

\* the ttl a call with argument ttlArg is to use: the argument when non-zero,
\* else the configured ttl when non-zero, else 60000 ms
selectedTtl(ttlArg) ==
    IF ttlArg # 0 THEN ttlArg ELSE IF cfgTtl # 0 THEN cfgTtl ELSE 60000

\* expiration e (seconds) of an entry written now with argument ttlArg: the
\* selected ttl after now, rounded; strictly later than the write time
\* rounded to seconds (strict), or not earlier than it and strictly later
\* for a selected ttl of 1000 ms or more
expiresAfterWrite(e, ttlArg, strict) ==
    /\ rounded(e, now + selectedTtl(ttlArg))
    /\ IF strict
       THEN e > msToS(now)
       ELSE /\ e >= msToS(now)
            /\ selectedTtl(ttlArg) >= 1000 => e > msToS(now)

ttlSelectionStep(strict) ==
    /\ \A key \in LogicalKeys, ttlArg \in TtlArgs :
           (/\ quiet
            /\ \/ res' = result("set", <<key, ttlArg>>, "ok", <<>>, 1)
               \/ res' = result("touch", <<key, ttlArg>>, "ok", <<>>, 1))
           => expiresAfterWrite(table'[deserializeKey(key, hasSk)].ex.N,
                                ttlArg, strict)
    /\ (op.kind = "idle" /\ op'.kind = "mset")
           => \A i \in DOMAIN op'.req : \A m \in DOMAIN op'.req[i] :
                  expiresAfterWrite(op'.req[i][m].ex.N, op'.ttlArg, strict)

\* C28 as stated: set, mset and touch use the per-call ttl when non-zero,
\* else the configured ttl when non-zero, else 60000 ms, and every entry
\* written expires strictly later than the write time rounded to seconds.
C28_ExpiresStrictlyLater == [][ttlSelectionStep(TRUE)]_vars

\* C28, amended: the same selection of the ttl; every entry written expires
\* not earlier than the write time rounded to seconds, and strictly later
\* when the selected ttl is 1000 ms or more.
C28_TtlSelection == [][ttlSelectionStep(FALSE)]_vars

\* a set without ttl under a configured ttl of 2000 ms has stored an entry
\* that expires 2 s after the write
C28_Witness ==
    /\ res.op = "set"
    /\ res.status = "ok"
    /\ res.args = <<Kab, 0>>
    /\ cfgTtl = 2000
    /\ table[deserializeKey(Kab, hasSk)].ex.N = msToS(now) + 2

\* the store keys of the delete requests a batch record or result holds
sentKeys(sent) ==
    UNION {{sent[i][1][m] : m \in DOMAIN sent[i][1]} :
              i \in {n \in DOMAIN sent : sent[n] # <<>>}}

\* the store keys the enumeration phase of the reset in progress returned
enumerated ==
    IF op.kind = "mdel"
    THEN UNION {{op.req[i][m] : m \in DOMAIN op.req[i]} : i \in DOMAIN op.req}
    ELSE {}

\* C29: reset() deletes only the keys its own enumeration returned, so that
\* the entry of a new key a concurrent set has written after the enumeration
\* is still stored when reset() completes; and when reset() has completed
\* successfully no enumerated key is stored any more, whatever a concurrent
\* set wrote under it between the enumeration and the delete.
C29_ResetNotAtomic ==
    /\ [][(op.call = "reset" /\ op' # op)
          => /\ DOMAIN table' \subseteq DOMAIN table
             /\ \A k \in DOMAIN table :
                    IF k \in DOMAIN table' THEN table'[k] = table[k]
                    ELSE k \in enumerated]_vars
    /\ []((res.op = "reset" /\ res.status = "ok")
          => \A k \in sentKeys(res.sent) : k \notin DOMAIN table)

====
